---- MODULE Spec2Model ----
(***************************************************************************)
(* State-machine model of the pty session registry of pnet-tool            *)
(* (src-tauri/src/main.rs): the commands start_pty, write_pty, resize_pty  *)
(* and kill_pty, the Mutex-guarded PtyRegistry they share, the reader      *)
(* thread start_pty spawns for each session (the Bridge), the telnet       *)
(* subprocess behind each pty and the events the Bridge emits.             *)
(*                                                                         *)
(* Granularity.  write_pty, resize_pty and kill_pty hold the registry      *)
(* MutexGuard from their first statement to their return, so each is one   *)
(* critical section.  resize_pty and kill_pty are one step; write_pty is   *)
(* one step to take the lock and look the entry up and one step per byte   *)
(* that write_all hands to the pty, all with the lock held.  start_pty     *)
(* touches shared state at three places (the spawn, the insert under the   *)
(* lock, the thread spawn) and is one step for each, plus the return.      *)
(* The Bridge thread is one step per loop iteration (read + emit).         *)
(***************************************************************************)
EXTENDS Integers, Sequences, FiniteSets, TLC

\* ---- bounds of the model
MaxStarts == 2      \* start_pty invocations
NumCallers == 2     \* threads running write_pty concurrently
BufSize == 2        \* bytes one read of the Bridge returns at most (the
                    \* 8192-byte buffer, at the scale of the model)
MaxBytes == 2       \* bytes through the ptys, in all: those the subprocesses
                    \* print plus those write_pty calls submit

MaxQueued == 3      \* open-requests queued in all (initial argv and callbacks)
NumConsumers == 2   \* threads running consume_pending_telnet_actions

\* ---- program constants
DefaultCols == 80
DefaultRows == 24

None == -1                         \* Option::None of a u16
Starts == 1 .. MaxStarts           \* start_pty invocations; also names the
                                   \* subprocess and the pty each one creates
Callers == 1 .. NumCallers
NanoIds == 1 .. MaxStarts          \* values nanoid!() returns
NoId == 0                          \* no session id
CallerIds == NanoIds               \* ids callers pass: issued or not (yet)
StartDims == {<<None, None>>, <<132, 43>>}   \* cols, rows of start_pty
ResizeDims == {<<132, 43>>}                 \* cols, rows of resize_pty
WriteData == {<<97>>, <<98, 99>>}  \* "a", "bc" as bytes
Idle == [id |-> NoId, pty |-> 0, data |-> <<>>, rest |-> <<>>]
NoRet == [op |-> "none", arg |-> NoId, res |-> "none", id |-> NoId]
Consumers == 1 .. NumConsumers
NoActions == [pc |-> "idle", actions |-> <<>>]
\* command-line arguments, by their parts: "telnet://r1:23", "r2" (no
\* scheme, no port), "telnet://" (no host) and the blank argument
Args == {[scheme |-> "telnet://", host |-> "r1", port |-> 23],
         [scheme |-> "", host |-> "r2", port |-> None],
         [scheme |-> "telnet://", host |-> "", port |-> None],
         [scheme |-> "", host |-> "", port |-> None]}
\* argv after skip(1)
Argvs == {<<>>} \cup {<<a>> : a \in Args} \cup {<<a, b>> : a, b \in Args}

VARIABLES
  registry,   \* PtyRegistry: session id -> PtyEntry [child, pair, writer]
  poisoned,   \* the registry Mutex is poisoned
  lock,       \* caller thread inside a write_pty critical section, 0 if none
  wr,         \* per caller thread: the write_pty call in progress
  spc,        \* per start_pty invocation: its position
  sid,        \* per start_pty invocation: the id it generated
  proc,       \* per subprocess: "none", "running", "exited"
  signalled,  \* per subprocess: child.kill() was called on it
  ptySize,    \* per pty: <<cols, rows>>
  out,        \* per pty: bytes written by the subprocess, not yet read
  nout,       \* per pty: number of bytes the subprocess has written
  stdin,      \* per pty: bytes the subprocess received
  bridge,     \* per start_pty invocation: "none", "loop", "done"
  events,     \* per session id: the events emitted with that id, in order
  ret,        \* what the step just taken returned to its caller, if anything
  killed,     \* ids for which a kill_pty call has returned
  accepted,   \* per pty: data of the write_pty calls that returned Ok
  pending,    \* PendingActions: the Vec<TelnetAction>
  plock,      \* thread holding the PendingActions guard, 0 if none
  cons,       \* per consumer thread: position and the Vec it cloned
  queued,     \* every action pushed to PendingActions so far, in order
  delivered,  \* the Vecs consume_pending_telnet_actions returned, in order,
              \* concatenated
  requests    \* payloads of the telnet://requests events, in order

\* the PendingActions side, which no pty command touches
qvars == <<pending, plock, cons, queued, delivered, requests>>

\* the PtyRegistry side, which no telnet-action code touches
ptyvars == <<registry, poisoned, lock, wr, spc, sid, proc, signalled,
             ptySize, out, nout, stdin, bridge, events, ret, killed,
             accepted>>

vars == <<ptyvars, qvars>>

\* ---- helpers
unwrap_or(opt, default) == IF opt = None THEN default ELSE opt

contains_key(id) == id \in DOMAIN registry

insert(map, id, entry) ==
  [k \in DOMAIN map \cup {id} |-> IF k = id THEN entry ELSE map[k]]

remove(map, id) == [k \in DOMAIN map \ {id} |-> map[k]]

\* what command op, called with session id arg, returned: Ok(id) from
\* start_pty, Ok(()) from the others (id is NoId then), or Err(msg)
Ok(op, arg, id) == [op |-> op, arg |-> arg, res |-> "ok", id |-> id]
Err(op, arg, msg) == [op |-> op, arg |-> arg, res |-> msg, id |-> NoId]

\* ids generated so far
Issued == {sid[s] : s \in Starts} \ {NoId}

\* nanoid!(): a 21-character random string; modelled as a value not
\* generated before
nanoid == CHOOSE i \in NanoIds : i \notin Issued

RECURSIVE Sum(_, _)
Sum(f, S) ==
  IF S = {} THEN 0
  ELSE LET x == CHOOSE y \in S : TRUE IN f[x] + Sum(f, S \ {x})

\* bytes the subprocesses have written so far
Written == Sum(nout, Starts)

\* bytes accepted from write_pty calls so far, finished or in progress
Submitted ==
  Sum([s \in Starts |-> Len(accepted[s])], Starts)
    + Sum([t \in Callers |-> Len(wr[t].data)], Callers)

\* variant: the registry is shared without a Mutex
CanLock_unguarded == TRUE

\* state.0.lock(): succeeds when no other thread holds the guard
CanLock == lock = 0

\* byte i of what the telnet subprocess prints: the two bytes of U+00E9,
\* then "A", repeated
OutByte(i) == <<195, 169, 65>>[((i - 1) % 3) + 1]

IsCont(b) == b >= 128 /\ b <= 191
IsLead2(b) == b >= 194 /\ b <= 223

\* String::from_utf8_lossy on bytes below 0xE0: the code points decoded,
\* each invalid byte replaced by U+FFFD
RECURSIVE from_utf8_lossy(_)
from_utf8_lossy(bytes) ==
  IF bytes = <<>> THEN <<>>
  ELSE LET b == Head(bytes) IN
    IF b < 128 THEN <<b>> \o from_utf8_lossy(Tail(bytes))
    ELSE IF IsLead2(b) /\ Len(bytes) >= 2 /\ IsCont(bytes[2])
      THEN <<(b - 192) * 64 + (bytes[2] - 128)>>
             \o from_utf8_lossy(Tail(Tail(bytes)))
      ELSE <<65533>> \o from_utf8_lossy(Tail(bytes))

PtyData(id, data) == [type |-> "pty://data", id |-> id, data |-> data]
PtyExit(id) == [type |-> "pty://exit", id |-> id, data |-> <<>>]

\* Option<TelnetLaunchRequest> as a set of at most one request: None when
\* the trimmed argument is empty, when Url::parse fails or when the URL has
\* no host; a missing scheme is coerced to telnet://
parse_telnet_url(url) ==
  IF url.scheme = "" /\ url.host = "" /\ url.port = None THEN {}
  ELSE LET work == IF url.scheme # "telnet://"
                     THEN [url EXCEPT !.scheme = "telnet://"]
                     ELSE url
       IN IF work.host = "" THEN {}
          ELSE {[host |-> work.host, port |-> work.port, label |-> None]}

Open(req) == [type |-> "open", request |-> req]

\* for arg in argv.skip(1) { if let Some(req) = parse_telnet_url(&arg)
\*   { actions.push(TelnetAction::Open { request: req }) } }
RECURSIVE parse_args(_)
parse_args(argv) ==
  IF argv = <<>> THEN <<>>
  ELSE LET req == parse_telnet_url(Head(argv))
       IN (IF req = {} THEN <<>> ELSE <<Open(CHOOSE r \in req : TRUE)>>)
            \o parse_args(Tail(argv))

\* PendingActions::default(), then setup extends it with the actions of
\* the initial argv
setup(argv) ==
  /\ pending = parse_args(argv)
  /\ queued = parse_args(argv)
  /\ plock = 0
  /\ cons = [c \in Consumers |-> NoActions]
  /\ delivered = <<>>
  /\ requests = <<>>

PtyInit ==
  /\ registry = <<>>
  /\ poisoned = FALSE
  /\ lock = 0
  /\ wr = [t \in Callers |-> Idle]
  /\ spc = [s \in Starts |-> "idle"]
  /\ sid = [s \in Starts |-> NoId]
  /\ proc = [s \in Starts |-> "none"]
  /\ signalled = [s \in Starts |-> FALSE]
  /\ ptySize = [s \in Starts |-> <<0, 0>>]
  /\ out = [s \in Starts |-> <<>>]
  /\ nout = [s \in Starts |-> 0]
  /\ stdin = [s \in Starts |-> <<>>]
  /\ bridge = [s \in Starts |-> "none"]
  /\ events = [i \in NanoIds |-> <<>>]
  /\ ret = NoRet
  /\ killed = {}
  /\ accepted = [s \in Starts |-> <<>>]

\* the application started without deep links on its command line
Init == PtyInit /\ setup(<<>>)

\* ---- start_pty
start_unch == UNCHANGED <<poisoned, qvars, lock, wr, out, nout, stdin, events,
                          killed, accepted, signalled>>

\* openpty fails: nothing was created
start_pty_openpty_err(s) ==
  /\ spc[s] = "idle"
  /\ spc' = [spc EXCEPT ![s] = "failed"]
  /\ ret' = Err("start", NoId, "openpty")
  /\ UNCHANGED <<registry, sid, proc, ptySize, bridge>>
  /\ start_unch

\* openpty succeeds, spawn_command fails: the pair is dropped
start_pty_spawn_err(s) ==
  /\ spc[s] = "idle"
  /\ spc' = [spc EXCEPT ![s] = "failed"]
  /\ ret' = Err("start", NoId, "spawn telnet")
  /\ UNCHANGED <<registry, sid, proc, ptySize, bridge>>
  /\ start_unch

\* variant: the reader thread is spawned right after the subprocess
start_pty_spawn_thread(s, cols, rows) ==
  /\ spc[s] = "idle"
  /\ spc' = [spc EXCEPT ![s] = "spawned"]
  /\ ptySize' = [ptySize EXCEPT ![s] =
                   <<unwrap_or(cols, DefaultCols), unwrap_or(rows, DefaultRows)>>]
  /\ proc' = [proc EXCEPT ![s] = "running"]
  /\ bridge' = [bridge EXCEPT ![s] = "loop"]
  /\ ret' = NoRet
  /\ UNCHANGED <<registry, sid>>
  /\ start_unch

\* openpty and spawn_command succeed: the subprocess runs on the pty
start_pty_spawn(s, cols, rows) ==
  /\ spc[s] = "idle"
  /\ spc' = [spc EXCEPT ![s] = "spawned"]
  /\ ptySize' = [ptySize EXCEPT ![s] =
                   <<unwrap_or(cols, DefaultCols), unwrap_or(rows, DefaultRows)>>]
  /\ proc' = [proc EXCEPT ![s] = "running"]
  /\ ret' = NoRet
  /\ UNCHANGED <<registry, sid, bridge>>
  /\ start_unch

\* variant: the entry is inserted before the handles are acquired
start_pty_handle_err_late(s, what) ==
  /\ spc[s] = "spawned"
  /\ CanLock
  /\ spc' = [spc EXCEPT ![s] = "failed"]
  /\ registry' = insert(registry, nanoid,
                        [child |-> s, pair |-> s, writer |-> s])
  /\ ret' = Err("start", NoId, what)
  /\ UNCHANGED <<sid, proc, ptySize, bridge>>
  /\ start_unch

\* try_clone_reader or take_writer fails: child and pair are dropped, the
\* subprocess is not killed
start_pty_handle_err(s, what) ==
  /\ spc[s] = "spawned"
  /\ spc' = [spc EXCEPT ![s] = "failed"]
  /\ ret' = Err("start", NoId, what)
  /\ UNCHANGED <<registry, sid, proc, ptySize, bridge>>
  /\ start_unch

\* variant: the id is generated and the step taken, the insert left out
start_pty_insert_skipped(s) ==
  /\ spc[s] = "spawned"
  /\ CanLock
  /\ sid' = [sid EXCEPT ![s] = nanoid]
  /\ spc' = [spc EXCEPT ![s] = "inserted"]
  /\ ret' = NoRet
  /\ UNCHANGED <<registry, proc, ptySize, bridge>>
  /\ start_unch

\* reader and writer acquired, id generated, entry inserted under the lock
start_pty_insert(s) ==
  /\ spc[s] = "spawned"
  /\ CanLock
  /\ IF poisoned
       THEN /\ spc' = [spc EXCEPT ![s] = "failed"]
            /\ ret' = Err("start", NoId, "lock ptys")
            /\ UNCHANGED <<registry, sid>>
       ELSE /\ sid' = [sid EXCEPT ![s] = nanoid]
            /\ registry' = insert(registry, nanoid,
                                  [child |-> s, pair |-> s, writer |-> s])
            /\ spc' = [spc EXCEPT ![s] = "inserted"]
            /\ ret' = NoRet
  /\ UNCHANGED <<proc, ptySize, bridge>>
  /\ start_unch

\* std::thread::spawn of the Bridge
start_pty_thread(s) ==
  /\ spc[s] = "inserted"
  /\ spc' = [spc EXCEPT ![s] = "threaded"]
  /\ bridge' = [bridge EXCEPT ![s] = "loop"]
  /\ ret' = NoRet
  /\ UNCHANGED <<registry, sid, proc, ptySize>>
  /\ start_unch

\* Ok(id)
start_pty_ok(s) ==
  /\ spc[s] = "threaded"
  /\ spc' = [spc EXCEPT ![s] = "returned"]
  /\ ret' = Ok("start", NoId, sid[s])
  /\ UNCHANGED <<registry, sid, proc, ptySize, bridge>>
  /\ start_unch

start_pty(s) ==
  \/ start_pty_openpty_err(s)
  \/ start_pty_spawn_err(s)
  \/ \E d \in StartDims : start_pty_spawn(s, d[1], d[2])
  \/ \E what \in {"reader", "writer"} : start_pty_handle_err(s, what)
  \/ start_pty_insert(s)
  \/ start_pty_thread(s)
  \/ start_pty_ok(s)

\* ---- write_pty
write_unch == UNCHANGED <<registry, poisoned, qvars, spc, sid, proc, signalled,
                          ptySize, out, nout, bridge, events, killed>>

\* state.0.lock() and guard.get_mut(&id): the call returns at once when the
\* lock is poisoned or the id is absent, else it holds the guard and a
\* reference to the entry's writer
write_pty_lock(t, id, data) ==
  /\ wr[t] = Idle
  /\ CanLock
  /\ IF poisoned
       THEN /\ ret' = Err("write", id, "lock ptys")
            /\ UNCHANGED <<lock, wr>>
       ELSE IF ~contains_key(id)
         THEN /\ ret' = Err("write", id, "pty not found")
              /\ UNCHANGED <<lock, wr>>
         ELSE /\ Written + Submitted + Len(data) <= MaxBytes
              /\ lock' = t
              /\ wr' = [wr EXCEPT ![t] = [id |-> id, pty |-> registry[id].writer,
                                          data |-> data, rest |-> data]]
              /\ ret' = NoRet
  /\ UNCHANGED <<stdin, accepted>>
  /\ write_unch

\* variant: write, not write_all: one write call, whatever it took
write_pty_byte_once(t) ==
  /\ wr[t] # Idle
  /\ LET w == wr[t] IN
       /\ stdin' = IF proc[w.pty] = "running"
                     THEN [stdin EXCEPT ![w.pty] = Append(@, Head(w.rest))]
                     ELSE stdin
       /\ wr' = [wr EXCEPT ![t] = Idle]
       /\ lock' = 0
       /\ ret' = Ok("write", w.id, NoId)
       /\ accepted' = [accepted EXCEPT ![w.pty] = @ \o w.data]
  /\ write_unch

\* one byte of write_all reaches the pty; after the last one the guard is
\* dropped and the call returns Ok(())
write_pty_byte(t) ==
  /\ wr[t] # Idle
  /\ LET w == wr[t] IN
       /\ stdin' = IF proc[w.pty] = "running"
                     THEN [stdin EXCEPT ![w.pty] = Append(@, Head(w.rest))]
                     ELSE stdin
       /\ IF Len(w.rest) = 1
            THEN /\ wr' = [wr EXCEPT ![t] = Idle]
                 /\ lock' = 0
                 /\ ret' = Ok("write", wr[t].id, NoId)
                 /\ accepted' = [accepted EXCEPT ![w.pty] = @ \o w.data]
            ELSE /\ wr' = [wr EXCEPT ![t].rest = Tail(w.rest)]
                 /\ ret' = NoRet
                 /\ UNCHANGED <<lock, accepted>>
  /\ write_unch

\* variant: a failed write drops the entry of the dead session
write_pty_err_remove(t) ==
  /\ wr[t] # Idle
  /\ proc[wr[t].pty] # "running"
  /\ wr' = [wr EXCEPT ![t] = Idle]
  /\ lock' = 0
  /\ ret' = Err("write", wr[t].id, "write")
  /\ registry' = remove(registry, wr[t].id)
  /\ UNCHANGED <<stdin, accepted, poisoned, qvars, spc, sid, proc, signalled,
                 ptySize, out, nout, bridge, events, killed>>

\* variant: a failed write is reported as a missing session
write_pty_err_not_found(t) ==
  /\ wr[t] # Idle
  /\ proc[wr[t].pty] # "running"
  /\ wr' = [wr EXCEPT ![t] = Idle]
  /\ lock' = 0
  /\ ret' = Err("write", wr[t].id, "pty not found")
  /\ UNCHANGED <<stdin, accepted>>
  /\ write_unch

\* write_all fails (the subprocess is gone): Err("write: ..."), guard dropped
write_pty_err(t) ==
  /\ wr[t] # Idle
  /\ proc[wr[t].pty] # "running"
  /\ wr' = [wr EXCEPT ![t] = Idle]
  /\ lock' = 0
  /\ ret' = Err("write", wr[t].id, "write")
  /\ UNCHANGED <<stdin, accepted>>
  /\ write_unch

write_pty(t) ==
  \/ \E id \in CallerIds, data \in WriteData : write_pty_lock(t, id, data)
  \/ write_pty_byte(t)
  \/ write_pty_err(t)

\* ---- resize_pty
\* variant: an absent id is ignored
resize_pty_lenient(id, cols, rows) ==
  /\ CanLock
  /\ IF ~contains_key(id)
       THEN /\ ret' = Ok("resize", id, NoId)
            /\ UNCHANGED ptySize
       ELSE /\ ptySize' = [ptySize EXCEPT ![registry[id].pair] = <<cols, rows>>]
            /\ ret' = Ok("resize", id, NoId)
  /\ UNCHANGED <<registry, poisoned, qvars, lock, wr, spc, sid, proc, signalled,
                 out, nout, stdin, bridge, events, killed, accepted>>

\* variant: the new size is applied to every registered pty
resize_pty_all(id, cols, rows) ==
  /\ CanLock
  /\ IF ~contains_key(id)
       THEN /\ ret' = Err("resize", id, "pty not found")
            /\ UNCHANGED ptySize
       ELSE /\ ptySize' = [p \in Starts |->
                             IF \E k \in DOMAIN registry : registry[k].pair = p
                               THEN <<cols, rows>> ELSE ptySize[p]]
            /\ ret' = Ok("resize", id, NoId)
  /\ UNCHANGED <<registry, poisoned, qvars, lock, wr, spc, sid, proc, signalled,
                 out, nout, stdin, bridge, events, killed, accepted>>

resize_pty(id, cols, rows) ==
  /\ CanLock
  /\ IF poisoned
       THEN /\ ret' = Err("resize", id, "lock ptys")
            /\ UNCHANGED ptySize
       ELSE IF ~contains_key(id)
         THEN /\ ret' = Err("resize", id, "pty not found")
              /\ UNCHANGED ptySize
         ELSE LET p == registry[id].pair IN
              \/ /\ ptySize' = [ptySize EXCEPT ![p] = <<cols, rows>>]
                 /\ ret' = Ok("resize", id, NoId)
              \/ /\ proc[p] # "running"
                 /\ ret' = Err("resize", id, "resize")
                 /\ UNCHANGED ptySize
  /\ UNCHANGED <<registry, poisoned, qvars, lock, wr, spc, sid, proc, signalled,
                 out, nout, stdin, bridge, events, killed, accepted>>

\* ---- kill_pty
\* variant: the child is dropped without kill()
kill_skipped(sig, p) == sig

\* child.kill(): signals the subprocess if it still runs; the result is
\* discarded
kill(sig, p) == [sig EXCEPT ![p] = @ \/ proc[p] = "running"]

\* variant: the entry is looked up with get_mut, not removed
kill_pty_get(id) ==
  /\ CanLock
  /\ IF contains_key(id)
       THEN signalled' = kill(signalled, registry[id].child)
       ELSE UNCHANGED signalled
  /\ ret' = Ok("kill", id, NoId)
  /\ killed' = IF id \in Issued THEN killed \cup {id} ELSE killed
  /\ UNCHANGED <<registry, poisoned, qvars, lock, wr, spc, sid, proc, ptySize, out,
                 nout, stdin, bridge, events, accepted>>

\* variant: an absent id is an error, as in write_pty and resize_pty
kill_pty_strict(id) ==
  /\ CanLock
  /\ IF contains_key(id)
       THEN /\ registry' = remove(registry, id)
            /\ signalled' = kill(signalled, registry[id].child)
            /\ ret' = Ok("kill", id, NoId)
            /\ killed' = killed \cup {id}
       ELSE /\ ret' = Err("kill", id, "pty not found")
            /\ UNCHANGED <<registry, signalled, killed>>
  /\ UNCHANGED <<poisoned, qvars, lock, wr, spc, sid, proc, ptySize, out, nout,
                 stdin, bridge, events, accepted>>

kill_pty(id) ==
  /\ CanLock
  /\ IF poisoned
       THEN /\ ret' = Err("kill", id, "lock ptys")
            /\ UNCHANGED <<registry, signalled, killed>>
       ELSE /\ IF contains_key(id)
                 THEN /\ registry' = remove(registry, id)
                      /\ signalled' = kill(signalled, registry[id].child)
                 ELSE UNCHANGED <<registry, signalled>>
            /\ ret' = Ok("kill", id, NoId)
            /\ killed' = IF id \in Issued THEN killed \cup {id} ELSE killed
  /\ UNCHANGED <<poisoned, qvars, lock, wr, spc, sid, proc, ptySize, out, nout,
                 stdin, bridge, events, accepted>>

\* ---- the telnet subprocess
\* it writes one more byte to its terminal
proc_output(s) ==
  /\ proc[s] = "running"
  /\ spc[s] # "failed"
  /\ Written + Submitted < MaxBytes
  /\ out' = [out EXCEPT ![s] = Append(@, OutByte(nout[s] + 1))]
  /\ nout' = [nout EXCEPT ![s] = @ + 1]
  /\ UNCHANGED <<registry, poisoned, qvars, lock, wr, spc, sid, proc, signalled,
                 ptySize, stdin, bridge, events, killed, accepted>>
  /\ ret' = NoRet

\* it terminates, on its own or from the signal
proc_exit(s) ==
  /\ proc[s] = "running"
  /\ proc' = [proc EXCEPT ![s] = "exited"]
  /\ UNCHANGED <<registry, poisoned, qvars, lock, wr, spc, sid, signalled, ptySize,
                 out, nout, stdin, bridge, events, killed, accepted>>
  /\ ret' = NoRet

\* ---- the Bridge thread of start_pty
bridge_unch == UNCHANGED <<registry, poisoned, qvars, lock, wr, spc, sid, proc,
                           signalled, ptySize, nout, stdin, killed,
                           accepted>>

\* reader.read returns Ok(n), n > 0: emit pty://data and loop
bridge_data(s, n) ==
  /\ bridge[s] = "loop"
  /\ n >= 1 /\ n <= Len(out[s])
  /\ events' = [events EXCEPT ![sid[s]] =
       Append(@, PtyData(sid[s], from_utf8_lossy(SubSeq(out[s], 1, n))))]
  /\ ret' = NoRet
  /\ out' = [out EXCEPT ![s] = SubSeq(@, n + 1, Len(@))]
  /\ UNCHANGED bridge
  /\ bridge_unch

\* variant: the loop is not left on Ok(0) / Err
bridge_exit_no_break(s) ==
  /\ bridge[s] = "loop"
  /\ out[s] = <<>>
  /\ proc[s] = "exited"
  /\ events' = [events EXCEPT ![sid[s]] = Append(@, PtyExit(sid[s]))]
  /\ ret' = NoRet
  /\ UNCHANGED <<out, bridge>>
  /\ bridge_unch

\* variant: the Bridge removes its entry when the stream closes
bridge_exit_cleanup(s) ==
  /\ bridge[s] = "loop"
  /\ out[s] = <<>>
  /\ proc[s] = "exited"
  /\ events' = [events EXCEPT ![sid[s]] = Append(@, PtyExit(sid[s]))]
  /\ ret' = NoRet
  /\ bridge' = [bridge EXCEPT ![s] = "done"]
  /\ registry' = remove(registry, sid[s])
  /\ UNCHANGED <<poisoned, qvars, lock, wr, spc, sid, proc, signalled, ptySize, out,
                 nout, stdin, killed, accepted>>

\* variant: Ok(0) is answered with another read instead of break
bridge_exit_retry(s) ==
  /\ bridge[s] = "loop"
  /\ out[s] = <<>>
  /\ proc[s] = "exited"
  /\ ret' = NoRet
  /\ UNCHANGED <<events, bridge, out>>
  /\ bridge_unch

\* reader.read returns Ok(0) or Err: break, emit pty://exit, thread ends
bridge_exit(s) ==
  /\ bridge[s] = "loop"
  /\ out[s] = <<>>
  /\ proc[s] = "exited"
  /\ events' = [events EXCEPT ![sid[s]] = Append(@, PtyExit(sid[s]))]
  /\ ret' = NoRet
  /\ bridge' = [bridge EXCEPT ![s] = "done"]
  /\ UNCHANGED out
  /\ bridge_unch

Bridge(s) ==
  \/ \E n \in 1 .. BufSize : bridge_data(s, n)
  \/ bridge_exit(s)

Next ==
  \/ \E s \in Starts : start_pty(s)
  \/ \E t \in Callers : write_pty(t)
  \/ \E id \in CallerIds, d \in ResizeDims : resize_pty(id, d[1], d[2])
  \/ \E id \in CallerIds : kill_pty(id)
  \/ \E s \in Starts : proc_output(s) \/ proc_exit(s)
  \/ \E s \in Starts : Bridge(s)

Spec == Init /\ [][Next]_vars

\* ---- telnet actions
\* the single-instance callback: parse argv, extend PendingActions under
\* its lock, emit telnet://requests
single_instance(argv) ==
  LET new_actions == parse_args(argv) IN
    /\ Len(queued) + Len(new_actions) <= MaxQueued
    /\ IF new_actions # <<>>
         THEN /\ plock = 0
              /\ pending' = pending \o new_actions
              /\ queued' = queued \o new_actions
              /\ requests' = Append(requests, new_actions)
         ELSE UNCHANGED <<pending, queued, requests>>
    /\ UNCHANGED <<plock, cons, delivered, ptyvars>>

\* variant: consume reads the Vec without holding its guard
consume_lock_shared(c) ==
  /\ cons[c].pc = "idle"
  /\ plock = 0
  /\ cons' = [cons EXCEPT ![c] = [pc |-> "locked", actions |-> <<>>]]
  /\ UNCHANGED <<plock, pending, queued, delivered, requests, ptyvars>>

\* let mut guard = state.0.lock().unwrap()
consume_lock(c) ==
  /\ cons[c].pc = "idle"
  /\ plock = 0
  /\ plock' = c
  /\ cons' = [cons EXCEPT ![c] = [pc |-> "locked", actions |-> <<>>]]
  /\ UNCHANGED <<pending, queued, delivered, requests, ptyvars>>

\* let actions = guard.clone()
consume_clone(c) ==
  /\ cons[c].pc = "locked"
  /\ cons' = [cons EXCEPT ![c] = [pc |-> "cloned", actions |-> pending]]
  /\ UNCHANGED <<plock, pending, queued, delivered, requests, ptyvars>>

\* guard.clear(); actions  (the guard is dropped on return)
consume_clear(c) ==
  /\ cons[c].pc = "cloned"
  /\ pending' = <<>>
  /\ plock' = IF plock = c THEN 0 ELSE plock
  /\ delivered' = delivered \o cons[c].actions
  /\ cons' = [cons EXCEPT ![c] = NoActions]
  /\ UNCHANGED <<queued, requests, ptyvars>>

consume_pending_telnet_actions(c) ==
  \/ consume_lock(c)
  \/ consume_clone(c)
  \/ consume_clear(c)

QueueNext ==
  \/ \E argv \in Argvs : single_instance(argv)
  \/ \E c \in Consumers : consume_pending_telnet_actions(c)

\* the application started with any command line; deep links arrive and
\* the front end consumes them
QueueSpec == (\E argv \in Argvs : PtyInit /\ setup(argv)) /\ [][QueueNext]_vars

\* the commands and threads that act on a Bridge's inputs: start_pty,
\* kill_pty, the subprocess and the Bridge threads themselves (write_pty
\* and resize_pty touch nothing a Bridge reads and take no part)
BridgeNext ==
  \/ \E s \in Starts : start_pty(s)
  \/ \E id \in CallerIds : kill_pty(id)
  \/ \E s \in Starts : proc_output(s) \/ proc_exit(s)
  \/ \E s \in Starts : Bridge(s)

\* each Bridge is an OS thread of its own that takes no lock: the scheduler
\* runs it whenever its read can return.  The reader is taken to return
\* Ok(0) or Err once the subprocess has exited and its output is drained.
FairSpec ==
  Init /\ [][BridgeNext]_vars /\ \A s \in Starts : WF_vars(Bridge(s))

\* ---- properties
ExitAt(id, i) == events[id][i].type = "pty://exit"
SlotOf(id) == CHOOSE s \in Starts : sid[s] = id
Dead(id) == \E s \in Starts : sid[s] = id /\ proc[s] = "exited"

\* C1: for every session id, the Bridge emits pty://exit at most once and
\* no event (so no pty://data) follows it: an exit event is the last event
\* emitted with that id.
C1_ExitIsLast ==
  \A id \in NanoIds : \A i \in 1 .. Len(events[id]) :
    ExitAt(id, i) => i = Len(events[id])

\* a session was killed while streaming: data events, then its exit event
C1_Witness ==
  \E id \in killed :
    /\ Len(events[id]) >= 3
    /\ ExitAt(id, Len(events[id]))
    /\ events[id][1].type = "pty://data"

\* C2: once kill_pty(id) has returned for an id that start_pty generated,
\* every write_pty and resize_pty on that id returns "pty not found".
C2_NotFoundAfterKill ==
  (ret.op \in {"write", "resize"} /\ ret.arg \in killed)
    => ret.res = "pty not found"

\* write_pty on a killed id returned not-found after the other start_pty
\* had returned its own id
C2_Witness ==
  /\ ret.op = "write" /\ ret.arg \in killed /\ ret.res = "pty not found"
  /\ \E s \in Starts :
       spc[s] = "returned" /\ sid[s] # ret.arg /\ contains_key(sid[s])

\* C3: a write_pty or resize_pty on an id that is no key of the registry
\* returns "pty not found", a kill_pty on it returns Ok; none of the three
\* changes the registry or signals a subprocess.
C3_AbsentId ==
  [][~contains_key(ret'.arg) =>
       /\ ret'.op \in {"write", "resize"} =>
            ret'.res = "pty not found"
              /\ UNCHANGED <<registry, signalled, proc, stdin, ptySize>>
       /\ ret'.op = "kill" =>
            ret'.res = "ok" /\ UNCHANGED <<registry, signalled, proc>>]_vars

\* kill_pty returned Ok for an id that was never generated, next to a
\* live session
C3_Witness ==
  /\ ret.op = "kill" /\ ret.res = "ok" /\ ret.arg \notin Issued
  /\ \E id \in DOMAIN registry : proc[registry[id].child] = "running"

\* C4: kill_pty never returns an error, and a kill_pty(id) that follows a
\* kill_pty(id) that has returned (at once or after other steps) returns Ok
\* and leaves the registry and every subprocess as they were.
C4_KillIdempotent ==
  [][/\ ret'.op = "kill" => ret'.res = "ok"
     /\ (ret'.op = "kill" /\ (ret'.arg \in killed \/ ret = ret')) =>
          UNCHANGED <<registry, signalled, proc, killed>>]_vars

\* kill_pty(id) returned Ok for an id whose entry an earlier kill_pty had
\* removed: the subprocess was signalled then and has exited since
C4_Witness ==
  /\ ret.op = "kill" /\ ret.res = "ok" /\ ret.arg \in killed
  /\ signalled[SlotOf(ret.arg)] /\ proc[SlotOf(ret.arg)] = "exited"

\* C5: an entry leaves the registry only through kill_pty: every id that
\* was inserted and for which no kill_pty has returned is still a key,
\* whatever the subprocess and the Bridge have done.
C5_OnlyKillRemoves == \A id \in Issued : id \notin killed => contains_key(id)

\* the subprocess exited on its own, the Bridge emitted the exit event and
\* ended, a write_pty failed: the entry is still there
C5_Witness ==
  \E s \in Starts :
    /\ proc[s] = "exited" /\ ~signalled[s] /\ bridge[s] = "done"
    /\ ret = Err("write", sid[s], "write")
    /\ contains_key(sid[s])

\* C6, as stated: a write_pty or resize_pty that fails on a session whose
\* subprocess is no longer running returns "pty not found".
C6_DeadSessionNotFound ==
  (ret.op \in {"write", "resize"} /\ ret.res # "ok" /\ Dead(ret.arg))
    => ret.res = "pty not found"

\* C6, amended: such a call returns "pty not found" only when kill_pty has
\* removed the entry; while the entry is in the registry it returns the
\* I/O error of the failed call ("write: ..." or "resize: ...").
C6_DeadSessionError ==
  (ret.op \in {"write", "resize"} /\ ret.res # "ok" /\ Dead(ret.arg))
    => ret.res = IF contains_key(ret.arg) THEN ret.op ELSE "pty not found"

\* a write_pty failed on a session whose subprocess exited on its own
C6_Witness ==
  /\ ret.op = "write" /\ ret.res = "write"
  /\ Dead(ret.arg) /\ contains_key(ret.arg)

\* C7: after kill_pty(id) has returned for the id of a started session, the
\* id is no key of the registry and the subprocess of that start_pty has
\* been signalled by child.kill(), unless it had already exited.
C7_KilledIsGone ==
  \A s \in Starts :
    sid[s] \in killed =>
      ~contains_key(sid[s]) /\ (signalled[s] \/ proc[s] = "exited")

\* kill_pty has just returned for a started session whose subprocess was
\* running: signalled, teardown not yet complete
C7_Witness ==
  \E s \in Starts :
    /\ spc[s] = "returned" /\ ret = Ok("kill", sid[s], NoId)
    /\ signalled[s] /\ proc[s] = "running"

\* C8: a start_pty that fails returns an error and no id, has inserted no
\* entry and spawned no Bridge, and no event carries an id it generated.
C8_FailedStart ==
  /\ \A s \in Starts :
       spc[s] = "failed" =>
         /\ sid[s] = NoId
         /\ bridge[s] = "none"
         /\ \A id \in DOMAIN registry : registry[id].child # s
  /\ (ret.op = "start" /\ ret.res # "ok") => ret.id = NoId
  /\ \A id \in NanoIds : events[id] # <<>> => id \in Issued

\* start_pty failed after the spawn, while another session is registered
C8_Witness ==
  /\ ret.op = "start" /\ ret.res \in {"reader", "writer"}
  /\ \E s \in Starts : spc[s] = "failed" /\ proc[s] = "running"
  /\ DOMAIN registry # {}

\* bytes of the write_pty call in progress on pty p that write_all has
\* handed over
InProgress(p) ==
  IF \E t \in Callers : wr[t].pty = p
    THEN LET w == wr[CHOOSE t \in Callers : wr[t].pty = p]
         IN SubSeq(w.data, 1, Len(w.data) - Len(w.rest))
    ELSE <<>>

C10_ResizeFrame ==
  [][ret'.op = "resize" =>
       /\ UNCHANGED <<registry, events, out, nout, bridge, proc, signalled,
                      stdin, accepted, sid, spc, wr, lock, killed>>
       /\ \A p \in Starts :
            ptySize'[p] # ptySize[p] =>
              contains_key(ret'.arg) /\ registry[ret'.arg].pair = p]_vars

\* resize_pty succeeded on a session whose Bridge has emitted data and has
\* more to read, while the other session keeps its size
C10_Witness ==
  /\ ret.op = "resize" /\ ret.res = "ok"
  /\ \E s \in Starts :
       /\ sid[s] = ret.arg /\ bridge[s] = "loop"
       /\ events[sid[s]] # <<>> /\ out[s] # <<>>
       /\ ptySize[s] = <<132, 43>>
  /\ \E id \in DOMAIN registry : ptySize[registry[id].pair] = <<80, 24>>

\* C11, as stated: no thread performs pty I/O while it holds the registry
\* lock, so a write_pty whose write_all has not finished leaves the lock
\* free for the commands of other sessions.
C11_NoIoUnderLock == \A t \in Callers : wr[t] # Idle => CanLock

\* bytes of a String: the UTF-8 encoding of its code points
RECURSIVE as_bytes(_)
as_bytes(str) ==
  IF str = <<>> THEN <<>>
  ELSE LET c == Head(str) IN
    (IF c < 128 THEN <<c>>
     ELSE IF c < 2048 THEN <<192 + (c \div 64), 128 + (c % 64)>>
     ELSE <<224 + (c \div 4096), 128 + ((c \div 64) % 64), 128 + (c % 64)>>)
    \o as_bytes(Tail(str))

\* the data payloads emitted with an id, concatenated
RECURSIVE Payload(_)
Payload(evs) ==
  IF evs = <<>> THEN <<>>
  ELSE (IF Head(evs).type = "pty://data" THEN Head(evs).data ELSE <<>>)
         \o Payload(Tail(evs))

\* the bytes subprocess s has written to its terminal
Produced(s) == [i \in 1 .. nout[s] |-> OutByte(i)]

IsPrefix(a, b) == Len(a) <= Len(b) /\ SubSeq(b, 1, Len(a)) = a

\* C13, as stated: the concatenation of the data payloads emitted for an
\* id is a prefix of the byte stream the subprocess produced.
C13_PayloadIsPrefix ==
  \A s \in Starts :
    sid[s] # NoId => IsPrefix(as_bytes(Payload(events[sid[s]])), Produced(s))

\* C14: a write_pty that found its entry and whose write_all fails returns
\* the error "write: ...", not "pty not found"; the registry is unchanged,
\* the entry still present, and the lock released.
C14_WriteErrorKeepsEntry ==
  [][\A t \in Callers :
       (wr[t] # Idle /\ wr'[t] = Idle /\ ret'.res # "ok") =>
         /\ ret' = Err("write", wr[t].id, "write")
         /\ UNCHANGED registry
         /\ contains_key(wr[t].id)
         /\ lock' = 0]_vars

\* write_pty failed on a registered session whose subprocess had exited,
\* and the lock is free again
C14_Witness ==
  /\ ret.op = "write" /\ ret.res = "write"
  /\ contains_key(ret.arg) /\ proc[registry[ret.arg].child] = "exited"
  /\ lock = 0 /\ \A t \in Callers : wr[t] = Idle

\* C15: a write_pty inside write_all holds the lock and its entry stays in
\* the registry with the writer it looked up, so kill_pty cannot remove it
\* under a running write; at most one command is in the critical section.
C15_CriticalSection ==
  /\ \A t \in Callers :
       wr[t] # Idle =>
         /\ lock = t
         /\ contains_key(wr[t].id)
         /\ registry[wr[t].id].writer = wr[t].pty
  /\ \A t, u \in Callers : (wr[t] # Idle /\ wr[u] # Idle) => t = u

\* a write_pty is half way through write_all on a live session while the
\* other session is registered too
C15_Witness ==
  \E t \in Callers :
    /\ wr[t] # Idle /\ Len(wr[t].rest) = 1 /\ Len(wr[t].data) = 2
    /\ proc[wr[t].pty] = "running"
    /\ Cardinality(DOMAIN registry) = 2

\* start_pty invocations that spawned their Bridge (and return Ok)
Succeeded == {s \in Starts : spc[s] \in {"threaded", "returned"}}

\* C17: a start_pty that succeeds has created one subprocess, one registry
\* entry (until kill_pty) and one Bridge; nothing else creates any: there
\* are as many Bridges as successful start_pty calls, each with its own
\* id, and every entry belongs to a start_pty that passed its insert.
C17_OnePerStart ==
  /\ {s \in Starts : bridge[s] # "none"} = Succeeded
  /\ \A s \in Succeeded : proc[s] # "none" /\ sid[s] # NoId
  /\ \A s, u \in Succeeded : sid[s] = sid[u] => s = u
  /\ \A id \in DOMAIN registry :
       /\ spc[registry[id].child] \in {"inserted", "threaded", "returned"}
       /\ sid[registry[id].child] = id
  /\ \A s \in Starts : proc[s] # "none" => spc[s] # "idle"

\* both start_pty calls succeeded: two subprocesses, entries and Bridges
C17_Witness ==
  /\ \A s \in Starts : spc[s] = "returned" /\ bridge[s] = "loop"
  /\ Cardinality(DOMAIN registry) = 2
  /\ ret.op = "start" /\ ret.res = "ok"

\* C18, as stated: every subprocess that runs and has not been signalled
\* is owned by exactly one registry entry (a start_pty between its spawn
\* and its insert still holds the child itself).
C18_NoOrphan ==
  \A s \in Starts :
    (proc[s] = "running" /\ ~signalled[s] /\ spc[s] # "spawned") =>
      Cardinality({id \in DOMAIN registry : registry[id].child = s}) = 1

\* C19: every event emitted carries the id under which its Bridge's entry
\* was inserted before: the id is a key of the registry or was removed by
\* kill_pty, and its start_pty has passed the insert.
C19_EventAfterInsert ==
  /\ \A id \in NanoIds :
       events[id] # <<>> =>
         /\ contains_key(id) \/ id \in killed
         /\ \A i \in 1 .. Len(events[id]) : events[id][i].id = id
  /\ \A s \in Starts :
       bridge[s] # "none" =>
         /\ spc[s] \in {"threaded", "returned"}
         /\ contains_key(sid[s]) \/ sid[s] \in killed

\* an event was emitted for a session that kill_pty has already removed
\* and whose start_pty has not returned yet
C19_Witness ==
  \E s \in Starts :
    /\ spc[s] = "threaded" /\ sid[s] \in killed
    /\ events[sid[s]] # <<>>

C20_ExactlyOnce ==
  /\ delivered \o pending = queued
  /\ \A c \in Consumers :
       cons[c].pc # "idle" => plock = c
  /\ \A c \in Consumers :
       cons[c].pc = "cloned" => cons[c].actions = pending

\* two consume calls have returned actions, a callback appended between
\* them, and another action waits in the queue while a consume runs
C20_Witness ==
  /\ Len(delivered) = 2 /\ Len(pending) = 1 /\ Len(requests) >= 2
  /\ delivered[1] # delivered[2]
  /\ \E c \in Consumers : cons[c].pc = "cloned"
====
